---- MODULE Spec2Model ----
(***************************************************************************)
(* The inventory engine of auknl/warehouse (package postgres, PInventoryDB) *)
(* as a state machine: request goroutines call SellProduct, UploadInventory *)
(* and UploadProducts concurrently, each inside its own database/sql        *)
(* transaction opened with BeginTx(ctx, nil), i.e. the store's default      *)
(* isolation level (READ COMMITTED: every statement reads the rows          *)
(* committed when it starts, a writer holds the lock of every row it wrote  *)
(* until its transaction ends).                                             *)
(*                                                                          *)
(* The SQL text of the statements (productExist, inStock, updateSaleInfo,   *)
(* insertStock, insertProduct, getProductStock) is not part of the source   *)
(* files at hand; what each statement does is modelled from the             *)
(* specification's Query Set (section 4.2).                                 *)
(***************************************************************************)
EXTENDS Integers, Sequences, FiniteSets, TLC

\* ------------------------------------------------------------------ bounds

MaxQty == 2        \* largest stock quantity an upload or the initial store carries
MaxAmt == 2        \* largest amount of one article a product requires
MaxBatch == 2      \* longest inventory payload
MaxProducts == 1   \* longest products payload
MaxContain == 2    \* longest composition list of one product
MaxCalls == 1      \* calls each request goroutine makes
MaxUploads == 1    \* upload calls in one run
MaxFaults == 1     \* store failures injected in one run
MaxRows == 2       \* rows the availability query returns

Procs == {1, 2}
Articles == {"a1", "a2"}
ProductNames == {"P", "Q"}

\* ------------------------------------------------------------ the store

NoRows == [x \in {} |-> 0]

\* f overridden by g: the rows of f, with those g writes replaced or added.
Merge(f, g) ==
    [x \in (DOMAIN f) \cup (DOMAIN g) |-> IF x \in DOMAIN g THEN g[x] ELSE f[x]]

Range(s) == {s[i] : i \in DOMAIN s}

VARIABLES
    stock,     \* committed inventory table: article id -> quantity
    comp,      \* committed composition table: <<product, article>> -> amount
    pc,        \* per goroutine: where the call stands
    op,        \* per goroutine: the engine operation running
    arg,       \* per goroutine: the operation's argument
    idx,       \* per goroutine: inserts of the upload loop done so far
    txOpen,    \* per goroutine: its transaction is open
    txw,       \* per goroutine: rows its open transaction wrote, uncommitted
    productExist, \* per goroutine: SellProduct's local of that name
    stockNo,   \* per goroutine: SellProduct's local of that name
    ret,       \* per goroutine: what the call returned
    stmts,     \* per goroutine: the store calls this call issued, in order
    failed,    \* per goroutine: the store call of this call that failed
    effect,    \* per goroutine: what this call's commit changed in the store
    need,      \* per goroutine: the stock rows and amounts the decrement addressed
    ncalls,    \* per goroutine: calls started
    nuploads,  \* upload calls started
    txEnd,     \* per goroutine: how the transaction of this call ended
    deadline,  \* per goroutine: the deadline the adapter set on the request
    avail,     \* GetProductStock: the rows its query returns
    gpsPc,     \* GetProductStock: where the call stands
    gpsIdx,    \* GetProductStock: rows the loop has consumed
    stocks,    \* GetProductStock: the local slice of that name
    gpsRet,    \* GetProductStock: what the call returned
    response,  \* the adapter's response to the product-stock request
    giPc,      \* GetInventory: where the call stands
    giRows,    \* GetInventory: the rows its query returned
    giSeen,    \* GetInventory: the stock table as committed when it queried
    giIdx,     \* GetInventory: rows the loop has consumed
    giStocks,  \* GetInventory: the local slice stocks
    giRet,     \* GetInventory: what the call returned
    rtx,       \* per read operation and Ping: the state of its transaction
    pingPc,    \* Ping: where the call stands
    pingRet,   \* Ping: what the call returned
    faults     \* store failures injected so far

gpsVars == <<avail, gpsPc, gpsIdx, stocks, gpsRet>>
giVars == <<giPc, giRows, giSeen, giIdx, giStocks, giRet>>
pingVars == <<pingPc, pingRet>>
readVars == <<gpsVars, response, giVars, rtx, pingVars>>
engineVars == <<stock, comp, pc, op, arg, idx, txOpen, txw, productExist,
                stockNo, ret, stmts, failed, effect, need, ncalls, nuploads,
                txEnd, deadline>>
vars == <<stock, comp, pc, op, arg, idx, txOpen, txw, productExist, stockNo,
          ret, stmts, failed, effect, need, ncalls, nuploads, faults,
          avail, gpsPc, gpsIdx, stocks, gpsRet, txEnd, deadline, response,
          giPc, giRows, giSeen, giIdx, giStocks, giRet, rtx, pingPc, pingRet>>

NoWrites == [stock |-> NoRows, comp |-> NoRows]
NoEffect == [stock |-> NoRows, comp |-> NoRows, dec |-> NoRows]
NoRet == [err |-> "none", n |-> 0]

\* The error values the engine returns.
ErrNil == "nil"
ErrStore == "store error"
ErrNotFound == "this product is not in system, cannot be sold"
ErrOutOfStock == "this product is not in stock, cannot be sold"

\* ------------------------------------------------- the statements (Query Set)

\* product-exists(name): the count of composition rows registered under name.
ProductExistCount(c, name) ==
    Cardinality({a \in Articles : <<name, a>> \in DOMAIN c})

\* The rows the exists-check returns. A registered product gives one row with
\* a non-zero count; for an absent one the statement gives either one row
\* with count zero or no row at all.
ProductExistRows(c, name) ==
    IF ProductExistCount(c, name) > 0
    THEN {<<ProductExistCount(c, name)>>}
    ELSE {<<0>>, <<>>}

\* product-in-stock(name): the number of articles of the composition whose
\* stock is short of the required amount; zero means in stock.
InStockFlag(s, c, name) ==
    Cardinality({a \in Articles :
        /\ <<name, a>> \in DOMAIN c
        /\ (a \notin DOMAIN s \/ s[a] < c[<<name, a>>])})

\* decrement-stock-for-product(name): the stock rows the statement rewrites,
\* each article of the composition less its required amount.
UpdateSaleInfo(s, c, name) ==
    [a \in {b \in DOMAIN s : <<name, b>> \in DOMAIN c} |-> s[a] - c[<<name, a>>]]

\* The stock rows decrement-stock-for-product(name) addresses, each with the
\* amount the composition requires of it.
Required(s, c, name) ==
    [a \in {b \in DOMAIN s : <<name, b>> \in DOMAIN c} |-> c[<<name, a>>]]

\* Rows held by the open transaction of another goroutine.
LockedStock(p) ==
    UNION {DOMAIN txw[q].stock : q \in {r \in Procs \ {p} : txOpen[r]}}

LockedComp(p) ==
    UNION {DOMAIN txw[q].comp : q \in {r \in Procs \ {p} : txOpen[r]}}

\* ---------------------------------------------------------- shared steps

Issue(p, call) == stmts' = [stmts EXCEPT ![p] = Append(@, call)]

\* The call returns (err, n); a transaction still open is rolled back.
Return(p, err, n) ==
    /\ ret' = [ret EXCEPT ![p] = [err |-> err, n |-> n]]
    /\ pc' = [pc EXCEPT ![p] = "done"]
    /\ txOpen' = [txOpen EXCEPT ![p] = FALSE]
    /\ txw' = [txw EXCEPT ![p] = NoWrites]

\* rows.Next() returned false because the iteration failed. SellProduct
\* never asks rows.Err() (GetInventory and GetProductStock do), so to it the
\* result simply ended there.
IterationErrors == {"productExist next", "inStock next"}

\* A store call of p fails. Whether the store still serves a transaction one
\* of whose results failed while it was read is the store's affair: it may
\* go on, or refuse every later call of that transaction, so after an
\* iteration error the later failures of the same call are not counted anew.
Fault(p, call) ==
    /\ IF failed[p] \in IterationErrors
       THEN UNCHANGED faults
       ELSE faults < MaxFaults /\ faults' = faults + 1
    /\ failed' = [failed EXCEPT ![p] = call]

NoFault == UNCHANGED <<faults, failed>>

\* transaction.Rollback(): the uncommitted rows are dropped, the store keeps
\* what was committed.
Rollback(p) ==
    /\ txEnd' = [txEnd EXCEPT ![p] = "rollback"]
    /\ UNCHANGED <<stock, comp, effect>>

\* transaction.Commit(): the rows the transaction wrote become the committed
\* ones, all at once.
Commit(p) ==
    /\ txEnd' = [txEnd EXCEPT ![p] = "commit"]
    /\ stock' = Merge(stock, txw[p].stock)
    /\ comp' = Merge(comp, txw[p].comp)
    /\ effect' = [effect EXCEPT ![p] =
          [stock |-> txw[p].stock, comp |-> txw[p].comp,
           dec |-> [a \in (DOMAIN txw[p].stock) \cap (DOMAIN stock) |->
                       stock[a] - txw[p].stock[a]]]]

\* A request reaches the engine: the adapter calls one operation.
StartCall(p, o, a) ==
    /\ pc[p] \in {"idle", "done"}
    /\ ncalls[p] < MaxCalls
    /\ ncalls' = [ncalls EXCEPT ![p] = @ + 1]
    /\ pc' = [pc EXCEPT ![p] = "begin"]
    /\ op' = [op EXCEPT ![p] = o]
    /\ arg' = [arg EXCEPT ![p] = a]
    /\ idx' = [idx EXCEPT ![p] = 0]
    /\ productExist' = [productExist EXCEPT ![p] = 0]
    /\ stockNo' = [stockNo EXCEPT ![p] = 0]
    /\ ret' = [ret EXCEPT ![p] = NoRet]
    /\ stmts' = [stmts EXCEPT ![p] = <<>>]
    /\ failed' = [failed EXCEPT ![p] = "none"]
    /\ effect' = [effect EXCEPT ![p] = NoEffect]
    /\ need' = [need EXCEPT ![p] = NoRows]
    /\ IF o = "SellProduct"
       THEN UNCHANGED nuploads
       ELSE nuploads < MaxUploads /\ nuploads' = nuploads + 1
    /\ txEnd' = [txEnd EXCEPT ![p] = "none"]
    /\ deadline' = [deadline EXCEPT ![p] = "set"]
    /\ UNCHANGED <<stock, comp, txOpen, txw, faults, readVars>>

\* inventory.db.BeginTx(ctx, nil)
BeginTx(p, next) ==
    /\ pc[p] = "begin"
    /\ Issue(p, "BeginTx")
    /\ \/ /\ NoFault
          /\ pc' = [pc EXCEPT ![p] = next]
          /\ txOpen' = [txOpen EXCEPT ![p] = TRUE]
          /\ UNCHANGED <<txw, ret>>
       \/ /\ Fault(p, "BeginTx")
          /\ Return(p, ErrStore, 0)
    /\ UNCHANGED <<stock, comp, op, arg, idx, productExist, stockNo, effect,
                   need, ncalls, nuploads, txEnd, deadline, readVars>>

\* ------------------------------------------------------------ SellProduct

sellProduct(p) == \E name \in ProductNames : StartCall(p, "SellProduct", name)

SellBegin(p) == op[p] = "SellProduct" /\ BeginTx(p, "exists")

\* What SellProduct returns when a query fails: the code returns err, which
\* at both places still holds nil (BeginTx and every Scan before succeeded),
\* not errQuery.
ErrAfterQueryFailure == ErrNil

\* The rows of a one-row result the loop may have been given when
\* rows.Next() fails: none, or the row itself when the loop does not return
\* at it (a row with a zero count makes SellProduct return).
DeliveredBeforeError(rows) ==
    {<<>>} \cup {r \in {rows} : r # <<>> /\ r[1] # 0}

\* transaction.Query(productExist, productName) and the loop over its rows.
\* The loop ends when rows.Next() returns false, at the end of the result or
\* on an iteration error alike: the rows delivered until then (none, or a
\* row with a non-zero count) are all the code has seen, and it goes on to
\* the stock check.
SellExists(p) ==
    /\ pc[p] = "exists" /\ op[p] = "SellProduct"
    /\ Issue(p, "productExist")
    /\ \/ /\ Fault(p, "productExist")
          /\ Rollback(p)
          /\ Return(p, ErrAfterQueryFailure, 0)
          /\ UNCHANGED productExist
       \/ \E rows \in ProductExistRows(comp, arg[p]) :
            \/ /\ rows # <<>>
               /\ Fault(p, "productExist scan")
               /\ Rollback(p)
               /\ Return(p, ErrStore, 0)
               /\ UNCHANGED productExist
            \/ \E seen \in DeliveredBeforeError(rows) :
                  /\ Fault(p, "productExist next")
                  /\ productExist' = [productExist EXCEPT ![p] =
                         IF seen = <<>> THEN @ ELSE seen[1]]
                  /\ pc' = [pc EXCEPT ![p] = "instock"]
                  /\ UNCHANGED <<stock, comp, effect, txOpen, txw, ret, txEnd>>
            \/ /\ NoFault
               /\ productExist' = [productExist EXCEPT ![p] =
                      IF rows = <<>> THEN @ ELSE rows[1]]
               /\ IF rows # <<>> /\ rows[1] = 0
                  THEN Rollback(p) /\ Return(p, ErrNotFound, 0)
                  ELSE /\ pc' = [pc EXCEPT ![p] = "instock"]
                       /\ UNCHANGED <<stock, comp, effect, txOpen, txw, ret, txEnd>>
    /\ UNCHANGED <<op, arg, idx, stockNo, need, ncalls, nuploads, deadline, readVars>>

\* if stockNo != 0: a non-zero flag blocks the sale.
OutOfStockInverted(flag) == flag = 0

OutOfStock(flag) == flag # 0

\* transaction.Query(inStock, productName) and the loop over its rows. When
\* rows.Next() returns false on an iteration error the flag is not delivered
\* (or a zero flag was, and the error came after it): stockNo is 0 and the
\* code goes on to the decrement.
SellInStock(p) ==
    /\ pc[p] = "instock" /\ op[p] = "SellProduct"
    /\ Issue(p, "inStock")
    /\ \/ /\ Fault(p, "inStock")
          /\ Rollback(p)
          /\ Return(p, ErrAfterQueryFailure, 0)
          /\ UNCHANGED stockNo
       \/ /\ Fault(p, "inStock scan")
          /\ Rollback(p)
          /\ Return(p, ErrStore, 0)
          /\ UNCHANGED stockNo
       \/ /\ Fault(p, "inStock next")
          /\ pc' = [pc EXCEPT ![p] = "exec"]
          /\ UNCHANGED <<stockNo, stock, comp, effect, txOpen, txw, ret, txEnd>>
       \/ /\ NoFault
          /\ stockNo' = [stockNo EXCEPT ![p] = InStockFlag(stock, comp, arg[p])]
          /\ IF OutOfStock(InStockFlag(stock, comp, arg[p]))
             THEN Rollback(p) /\ Return(p, ErrOutOfStock, 0)
             ELSE /\ pc' = [pc EXCEPT ![p] = "exec"]
                  /\ UNCHANGED <<stock, comp, effect, txOpen, txw, ret, txEnd>>
    /\ UNCHANGED <<op, arg, idx, productExist, need, ncalls, nuploads, deadline, readVars>>

\* The decrement run on the database handle instead of the transaction:
\* it is committed as soon as it is executed.
ExecOnDb(p, writes) ==
    /\ stock' = Merge(stock, writes)
    /\ effect' = [effect EXCEPT ![p] =
          [stock |-> writes, comp |-> NoRows,
           dec |-> [a \in DOMAIN writes |-> stock[a] - writes[a]]]]
    /\ UNCHANGED <<comp, txw>>

\* The decrement runs inside the transaction: its rows stay uncommitted.
ExecInTx(p, writes) ==
    /\ txw' = [txw EXCEPT ![p].stock = writes]
    /\ UNCHANGED <<stock, comp, effect>>

\* transaction.ExecContext(ctx, updateSaleInfo, productName): the statement
\* waits for the rows another transaction holds, then rewrites the rows as
\* committed at that moment.
SellExec(p) ==
    /\ pc[p] = "exec" /\ op[p] = "SellProduct"
    /\ Issue(p, "updateSaleInfo")
    /\ \/ /\ Fault(p, "updateSaleInfo")
          /\ Rollback(p)
          /\ Return(p, ErrStore, 0)
          /\ UNCHANGED need
       \/ /\ NoFault
          /\ DOMAIN UpdateSaleInfo(stock, comp, arg[p]) \cap LockedStock(p) = {}
          /\ ExecInTx(p, UpdateSaleInfo(stock, comp, arg[p]))
          /\ need' = [need EXCEPT ![p] = Required(stock, comp, arg[p])]
          /\ pc' = [pc EXCEPT ![p] = "commit"]
          /\ UNCHANGED <<txOpen, ret, txEnd>>
    /\ UNCHANGED <<op, arg, idx, productExist, stockNo, ncalls, nuploads, deadline, readVars>>

\* transaction.Commit()
SellCommit(p) ==
    /\ pc[p] = "commit" /\ op[p] = "SellProduct"
    /\ Issue(p, "Commit")
    /\ \/ /\ Fault(p, "Commit")
          /\ Rollback(p)
          /\ Return(p, ErrStore, 0)
       \/ /\ NoFault
          /\ Commit(p)
          /\ Return(p, ErrNil, 0)
    /\ UNCHANGED <<op, arg, idx, productExist, stockNo, need, ncalls, nuploads, deadline, readVars>>

\* ------------------------------------------------------------ the payloads

\* data.Inventory: a sequence of stock entries (article id, quantity).
InventoryPayloads ==
    UNION {[1..n -> [art : Articles, qty : 0..MaxQty]] : n \in 0..MaxBatch}

\* data.Products: a sequence of products, each with its composition list.
ContainLists ==
    UNION {[1..n -> [art : Articles, amt : 1..MaxAmt]] : n \in 0..MaxContain}

ProductPayloads ==
    UNION {[1..n -> [name : ProductNames, contain : ContainLists]] :
              n \in 0..MaxProducts}

\* The composition rows the two nested loops of UploadProducts insert, in
\* the order they insert them.
RECURSIVE ProductRows(_)
ProductRows(products) ==
    IF products = <<>> THEN <<>>
    ELSE [i \in 1..Len(Head(products).contain) |->
             [name |-> Head(products).name,
              art |-> Head(products).contain[i].art,
              amt |-> Head(products).contain[i].amt]]
         \o ProductRows(Tail(products))

\* --------------------------------------------------------- UploadInventory

uploadInventory(p) ==
    \E inv \in InventoryPayloads : StartCall(p, "UploadInventory", inv)

UploadInventoryBegin(p) == op[p] = "UploadInventory" /\ BeginTx(p, "insert")

\* The insert failed and the function committed what it had inserted.
InsertStockFailedCommits(p) == Commit(p) /\ Return(p, ErrStore, 0)

\* The insert failed and the function reported the inserts done before it.
InsertStockFailedCounts(p) == Rollback(p) /\ Return(p, ErrStore, idx[p])

\* The insert failed and the function returned without ending its
\* transaction.
InsertStockFailedNoRollback(p) ==
    /\ UNCHANGED <<stock, comp, effect, txEnd>>
    /\ Return(p, ErrStore, 0)

\* if err != nil: transaction.Rollback(); return err, 0
InsertStockFailed(p) == Rollback(p) /\ Return(p, ErrStore, 0)

\* One turn of the loop: transaction.ExecContext(ctx, insertStock, ...). The
\* statement writes the article's row (adding it when it is new) and waits
\* while another transaction holds that row. When it fails the rollback is
\* a store call of its own, made in the next step.
UploadInventoryInsert(p) ==
    /\ pc[p] = "insert" /\ op[p] = "UploadInventory"
    /\ idx[p] < Len(arg[p])
    /\ Issue(p, "insertStock")
    /\ LET rec == arg[p][idx[p] + 1] IN
       \/ /\ Fault(p, "insertStock")
          /\ pc' = [pc EXCEPT ![p] = "insertFailed"]
          /\ UNCHANGED <<stock, comp, effect, txOpen, txw, ret, txEnd, idx>>
       \/ /\ NoFault
          /\ rec.art \notin LockedStock(p)
          /\ txw' = [txw EXCEPT ![p].stock =
                        Merge(@, [a \in {rec.art} |-> rec.qty])]
          /\ idx' = [idx EXCEPT ![p] = @ + 1]
          /\ UNCHANGED <<stock, comp, effect, pc, txOpen, ret, txEnd>>
    /\ UNCHANGED <<op, arg, productExist, stockNo, need, ncalls, nuploads, deadline, readVars>>

\* The insert has failed: transaction.Rollback() and return err, 0. Until
\* this second store call the transaction still holds the rows the earlier
\* inserts of the batch wrote.
UploadInventoryInsertFailed(p) ==
    /\ pc[p] = "insertFailed" /\ op[p] = "UploadInventory"
    /\ InsertStockFailed(p)
    /\ UNCHANGED <<op, arg, idx, productExist, stockNo, stmts, need, ncalls,
                   nuploads, faults, failed, deadline, readVars>>

\* The count UploadInventory reports after its commit.
UploadInventoryCount(inv) == Len(inv)

\* The failed commit reported like that of UploadProducts: no error and the
\* size of the batch.
UploadInventoryCommitFailedCounts(p) ==
    Rollback(p) /\ Return(p, ErrNil, UploadInventoryCount(arg[p]))

\* if err != nil after Commit: transaction.Rollback(); return nil, 0
UploadInventoryCommitFailed(p) == Rollback(p) /\ Return(p, ErrNil, 0)

\* transaction.Commit() after the loop.
UploadInventoryCommit(p) ==
    /\ pc[p] = "insert" /\ op[p] = "UploadInventory"
    /\ idx[p] = Len(arg[p])
    /\ Issue(p, "Commit")
    /\ \/ /\ Fault(p, "Commit")
          /\ UploadInventoryCommitFailed(p)
       \/ /\ NoFault
          /\ Commit(p)
          /\ Return(p, ErrNil, UploadInventoryCount(arg[p]))
    /\ UNCHANGED <<op, arg, idx, productExist, stockNo, need, ncalls, nuploads, deadline, readVars>>

\* ---------------------------------------------------------- UploadProducts

uploadProducts(p) ==
    \E products \in ProductPayloads : StartCall(p, "UploadProducts", products)

UploadProductsBegin(p) == op[p] = "UploadProducts" /\ BeginTx(p, "insert")

\* One turn of the inner loop: transaction.ExecContext(ctx, insertProduct,
\* ...). The statement appends the (product, article) row; it fails when
\* that pair has a row already, and waits while another transaction holds an
\* uncommitted row of that pair. When it fails the rollback is a store
\* call of its own, made in the next step.
UploadProductsInsert(p) ==
    /\ pc[p] = "insert" /\ op[p] = "UploadProducts"
    /\ idx[p] < Len(ProductRows(arg[p]))
    /\ Issue(p, "insertProduct")
    /\ LET row == ProductRows(arg[p])[idx[p] + 1]
           key == <<row.name, row.art>>
       IN
       \/ /\ Fault(p, "insertProduct")
          /\ pc' = [pc EXCEPT ![p] = "insertFailed"]
          /\ UNCHANGED <<stock, comp, effect, txOpen, txw, ret, txEnd, idx>>
       \/ /\ key \in (DOMAIN comp) \cup (DOMAIN txw[p].comp)
          /\ failed' = [failed EXCEPT ![p] = "insertProduct"]
          /\ UNCHANGED faults
          /\ pc' = [pc EXCEPT ![p] = "insertFailed"]
          /\ UNCHANGED <<stock, comp, effect, txOpen, txw, ret, txEnd, idx>>
       \/ /\ NoFault
          /\ key \notin (DOMAIN comp) \cup (DOMAIN txw[p].comp)
          /\ key \notin LockedComp(p)
          /\ txw' = [txw EXCEPT ![p].comp = Merge(@, [k \in {key} |-> row.amt])]
          /\ idx' = [idx EXCEPT ![p] = @ + 1]
          /\ UNCHANGED <<stock, comp, effect, pc, txOpen, ret, txEnd>>
    /\ UNCHANGED <<op, arg, productExist, stockNo, need, ncalls, nuploads, deadline, readVars>>

\* if err != nil: transaction.Rollback(); return err, 0
InsertProductFailed(p) == Rollback(p) /\ Return(p, ErrStore, 0)

\* The insert has failed: the rollback, a store call of its own, drops the
\* rows the earlier inserts of the call wrote and the call returns.
UploadProductsInsertFailed(p) ==
    /\ pc[p] = "insertFailed" /\ op[p] = "UploadProducts"
    /\ InsertProductFailed(p)
    /\ UNCHANGED <<op, arg, idx, productExist, stockNo, stmts, need, ncalls,
                   nuploads, faults, failed, deadline, readVars>>

\* The count of composition rows inserted.
UploadProductsCountRows(products) == Len(ProductRows(products))

\* The count UploadProducts reports: insertedRecord = len(product.Products).
UploadProductsCount(products) == Len(products)

\* transaction.Commit() after the loops; a failed commit is logged and the
\* function goes on to report the count.
UploadProductsCommit(p) ==
    /\ pc[p] = "insert" /\ op[p] = "UploadProducts"
    /\ idx[p] = Len(ProductRows(arg[p]))
    /\ Issue(p, "Commit")
    /\ \/ /\ Fault(p, "Commit")
          /\ Rollback(p)
          /\ Return(p, ErrNil, UploadProductsCount(arg[p]))
       \/ /\ NoFault
          /\ Commit(p)
          /\ Return(p, ErrNil, UploadProductsCount(arg[p]))
    /\ UNCHANGED <<op, arg, idx, productExist, stockNo, need, ncalls, nuploads, deadline, readVars>>

\* --------------------------------------------------------- GetProductStock

\* A text is a sequence of one-character strings.
DigitChars == <<"0", "1", "2", "3", "4", "5", "6", "7", "8", "9">>

IsDigit(c) == c \in Range(DigitChars)

DigitValue(c) == CHOOSE d \in 0..9 : DigitChars[d + 1] = c

\* A magnitude is a digit sequence without leading zeros; zero is <<>>.
RECURSIVE StripZeros(_)
StripZeros(ds) ==
    IF ds # <<>> /\ Head(ds) = "0" THEN StripZeros(Tail(ds)) ELSE ds

MagLess(a, b) ==
    \/ Len(a) < Len(b)
    \/ /\ Len(a) = Len(b)
       /\ \E i \in 1..Len(a) :
            /\ \A j \in 1..(i - 1) : a[j] = b[j]
            /\ DigitValue(a[i]) < DigitValue(b[i])

\* 1<<63 - 1, 1<<63 and 1<<64 - 1 as magnitudes.
MaxInt64Mag == <<"9","2","2","3","3","7","2","0","3","6","8","5","4","7","7","5","8","0","7">>
CutoffMag == <<"9","2","2","3","3","7","2","0","3","6","8","5","4","7","7","5","8","0","8">>
MaxUint64Mag == <<"1","8","4","4","6","7","4","4","0","7","3","7","0","9","5","5","1","6","1","5">>

\* (1<<64 - 1)/10 + 1: from this magnitude on, one more digit overflows.
UintCutoffMag == <<"1","8","4","4","6","7","4","4","0","7","3","7","0","9","5","5","1","6","2">>

\* The loop of ParseUint over the bytes s still to read, n being the value
\* read so far: a byte that is no digit ends it with a syntax error, a digit
\* that takes the value beyond 64 bits ends it with the largest value and a
\* range error, whatever bytes follow.
RECURSIVE ParseUintFrom(_, _)
ParseUintFrom(s, n) ==
    IF s = <<>> THEN [mag |-> n, err |-> "nil"]
    ELSE IF ~IsDigit(Head(s)) THEN [mag |-> <<>>, err |-> "syntax"]
    ELSE IF ~MagLess(n, UintCutoffMag)
    THEN [mag |-> MaxUint64Mag, err |-> "range"]
    ELSE IF MagLess(MaxUint64Mag, StripZeros(n \o <<Head(s)>>))
    THEN [mag |-> MaxUint64Mag, err |-> "range"]
    ELSE ParseUintFrom(Tail(s), StripZeros(n \o <<Head(s)>>))

\* strconv.ParseUint(s, 10, 64)
ParseUint(s) ==
    IF s = <<>> THEN [mag |-> <<>>, err |-> "syntax"]
    ELSE ParseUintFrom(s, <<>>)

\* strconv.ParseInt(s, 10, 64): the value as sign and magnitude, and the
\* error. A syntax error of ParseUint gives zero; its range error is passed
\* on to the tests against 1<<63, which give the nearest bound.
ParseInt(s) ==
    IF s = <<>> THEN [neg |-> FALSE, mag |-> <<>>, err |-> "syntax"]
    ELSE LET neg == s[1] = "-"
             un == ParseUint(IF s[1] \in {"+", "-"} THEN Tail(s) ELSE s)
         IN  IF un.err = "syntax"
             THEN [neg |-> FALSE, mag |-> <<>>, err |-> "syntax"]
             ELSE IF ~neg /\ ~MagLess(un.mag, CutoffMag)
             THEN [neg |-> FALSE, mag |-> MaxInt64Mag, err |-> "range"]
             ELSE IF neg /\ MagLess(CutoffMag, un.mag)
             THEN [neg |-> TRUE, mag |-> CutoffMag, err |-> "range"]
             ELSE [neg |-> neg /\ un.mag # <<>>, mag |-> un.mag, err |-> "nil"]

\* stockNo > 0 in place of stockNo != 0.
EnoughItemsPositive(text) == ParseInt(text).mag # <<>> /\ ~ParseInt(text).neg

\* stockNo, _ := strconv.ParseInt(stock, 10, 64); stockNo != 0
EnoughItems(text) == ParseInt(text).mag # <<>>

\* The read operations, each with a transaction of its own.
Readers == {"GetInventory", "GetProductStock"}

\* The operations that write nothing: the read operations and Ping.
ReadOps == {"GetInventory", "GetProductStock", "Ping"}

\* inventory.db.BeginTx(ctx, nil) succeeded in read operation r.
ReadBegin(r) == rtx' = [rtx EXCEPT ![r] = "open"]

\* The read operation commits its transaction when it returns.
ReadCommits(r) == rtx' = [rtx EXCEPT ![r] = "commit"]

\* defer transaction.Rollback(): the read operation returns.
ReadRollback(r) == rtx' = [rtx EXCEPT ![r] = "rollback"]

\* The call starts: inventory.db.BeginTx(ctx, nil).
GetProductStockBegin ==
    /\ gpsPc = "begin"
    /\ \/ /\ gpsPc' = "query"
          /\ ReadBegin("GetProductStock")
          /\ UNCHANGED <<gpsRet, faults>>
       \/ /\ faults < MaxFaults
          /\ faults' = faults + 1
          /\ gpsPc' = "done"
          /\ gpsRet' = [err |-> ErrStore, n |-> <<>>]
          /\ UNCHANGED rtx
    /\ UNCHANGED <<avail, gpsIdx, stocks, engineVars, response, giVars, pingVars>>

\* transaction.Query(getProductStock)
GetProductStockQuery ==
    /\ gpsPc = "query"
    /\ \/ /\ gpsPc' = "rows"
          /\ UNCHANGED <<gpsRet, faults, rtx>>
       \/ /\ faults < MaxFaults
          /\ faults' = faults + 1
          /\ gpsPc' = "done"
          /\ gpsRet' = [err |-> ErrStore, n |-> <<>>]
          /\ ReadRollback("GetProductStock")
    /\ UNCHANGED <<avail, gpsIdx, stocks, engineVars, response, giVars, pingVars>>

\* One turn of the loop over the rows: Scan, ParseInt, append.
GetProductStockRow ==
    /\ gpsPc = "rows"
    /\ gpsIdx < Len(avail)
    /\ LET row == avail[gpsIdx + 1] IN
       \/ /\ gpsIdx' = gpsIdx + 1
          /\ stocks' = IF EnoughItems(row.stock)
                       THEN Append(stocks, [Name |-> row.name,
                                            AvailableProductNo |-> row.stock])
                       ELSE stocks
          /\ UNCHANGED <<gpsPc, gpsRet, faults, rtx>>
       \/ /\ faults < MaxFaults
          /\ faults' = faults + 1
          /\ gpsPc' = "done"
          /\ gpsRet' = [err |-> ErrStore, n |-> <<>>]
          /\ ReadRollback("GetProductStock")
          /\ UNCHANGED <<gpsIdx, stocks>>
    /\ UNCHANGED <<avail, engineVars, response, giVars, pingVars>>

\* After the loop: rows.Err(), then return nil, stocks.
GetProductStockReturn ==
    /\ gpsPc = "rows"
    /\ gpsIdx = Len(avail)
    /\ gpsPc' = "done"
    /\ ReadRollback("GetProductStock")
    /\ \/ /\ gpsRet' = [err |-> ErrNil, n |-> stocks]
          /\ UNCHANGED faults
       \/ /\ faults < MaxFaults
          /\ faults' = faults + 1
          /\ gpsRet' = [err |-> ErrStore, n |-> <<>>]
    /\ UNCHANGED <<avail, gpsIdx, stocks, engineVars, response, giVars, pingVars>>

\* ------------------------------------------- the adapter: getProductStock

StatusOK == 200
StatusNotFound == 404

NoResponse == [status |-> 0, message |-> "", productStocks |-> <<>>]

\* The indicator shown in place of an empty list.
NoProductMessage == "No product in stock"

\* len(stocks) != 0 in place of len(stocks) == 0.
NoProductInStockInverted(list) == Len(list) # 0

\* if len(stocks) == 0
NoProductInStock(list) == Len(list) = 0

\* Server.getProductStock once the engine has returned: an engine error is
\* answered with its message, an empty list with the indicator, any other
\* list with the list.
getProductStock ==
    /\ gpsPc = "done"
    /\ response = NoResponse
    /\ response' =
          IF gpsRet.err # ErrNil
          THEN [status |-> StatusNotFound, message |-> gpsRet.err,
                productStocks |-> <<>>]
          ELSE IF NoProductInStock(gpsRet.n)
          THEN [status |-> StatusOK, message |-> NoProductMessage,
                productStocks |-> <<>>]
          ELSE [status |-> StatusOK, message |-> "", productStocks |-> gpsRet.n]
    /\ UNCHANGED <<gpsVars, engineVars, giVars, rtx, pingVars, faults>>

\* ------------------------------------------------------------ GetInventory

\* list-stock: every row of the stock table once, in the order the store
\* delivers them. The article's name takes part in no decision and is left
\* out of the rows.
ListStock(s) ==
    {[i \in 1..Cardinality(DOMAIN s) |-> [ArtId |-> f[i], Stock |-> s[f[i]]]] :
        f \in {g \in [1..Cardinality(DOMAIN s) -> DOMAIN s] :
                  \A i, j \in DOMAIN g : i # j => g[i] # g[j]}}

\* The call starts: inventory.db.BeginTx(ctx, nil).
GetInventoryBegin ==
    /\ giPc = "begin"
    /\ \/ /\ giPc' = "query"
          /\ ReadBegin("GetInventory")
          /\ UNCHANGED <<giRet, faults>>
       \/ /\ faults < MaxFaults
          /\ faults' = faults + 1
          /\ giPc' = "done"
          /\ giRet' = [err |-> ErrStore, n |-> <<>>]
          /\ UNCHANGED rtx
    /\ UNCHANGED <<giRows, giSeen, giIdx, giStocks, gpsVars, response, engineVars, pingVars>>

\* transaction.Query(getInventory): the statement reads the rows committed
\* when it runs.
GetInventoryQuery ==
    /\ giPc = "query"
    /\ \/ /\ giPc' = "rows"
          /\ giSeen' = stock
          /\ giRows' \in ListStock(stock)
          /\ UNCHANGED <<giRet, faults, rtx>>
       \/ /\ faults < MaxFaults
          /\ faults' = faults + 1
          /\ giPc' = "done"
          /\ giRet' = [err |-> ErrStore, n |-> <<>>]
          /\ ReadRollback("GetInventory")
          /\ UNCHANGED <<giRows, giSeen>>
    /\ UNCHANGED <<giIdx, giStocks, gpsVars, response, engineVars, pingVars>>

\* A loop that skips the rows whose quantity is zero.
GetInventoryAppendNonZero(list, row) ==
    IF row.Stock = 0 THEN list ELSE Append(list, row)

\* stocks = append(stocks, data.Stock{...})
GetInventoryAppend(list, row) == Append(list, row)

\* One turn of the loop over the rows: Scan, append.
GetInventoryRow ==
    /\ giPc = "rows"
    /\ giIdx < Len(giRows)
    /\ \/ /\ giIdx' = giIdx + 1
          /\ giStocks' = GetInventoryAppend(giStocks, giRows[giIdx + 1])
          /\ UNCHANGED <<giPc, giRet, faults, rtx>>
       \/ /\ faults < MaxFaults
          /\ faults' = faults + 1
          /\ giPc' = "done"
          /\ giRet' = [err |-> ErrStore, n |-> <<>>]
          /\ ReadRollback("GetInventory")
          /\ UNCHANGED <<giIdx, giStocks>>
    /\ UNCHANGED <<giRows, giSeen, gpsVars, response, engineVars, pingVars>>

\* After the loop: rows.Err(), then return nil, stocks.
GetInventoryReturn ==
    /\ giPc = "rows"
    /\ giIdx = Len(giRows)
    /\ giPc' = "done"
    /\ ReadRollback("GetInventory")
    /\ \/ /\ giRet' = [err |-> ErrNil, n |-> giStocks]
          /\ UNCHANGED faults
       \/ /\ faults < MaxFaults
          /\ faults' = faults + 1
          /\ giRet' = [err |-> ErrStore, n |-> <<>>]
    /\ UNCHANGED <<giRows, giSeen, giIdx, giStocks, gpsVars, response, engineVars, pingVars>>

\* -------------------------------------------------------------------- Ping

\* return inventory.db.Ping(): no transaction is begun, no statement issued.
Ping ==
    /\ pingPc = "begin"
    /\ pingPc' = "done"
    /\ \/ /\ pingRet' = [err |-> ErrNil, n |-> 0]
          /\ UNCHANGED faults
       \/ /\ faults < MaxFaults
          /\ faults' = faults + 1
          /\ pingRet' = [err |-> ErrStore, n |-> 0]
    /\ UNCHANGED <<gpsVars, response, giVars, rtx, engineVars>>

\* ---------------------------------------------------------- the deadline

\* The time Server.setDeadline stored on the request passes. The deadline
\* is kept as a value of the request context under the key "deadline"; the
\* context handed to the engine is never cancelled by it and no store call
\* reads it, so nothing else changes.
DeadlineExpires(p) ==
    /\ pc[p] \notin {"idle", "done"}
    /\ deadline[p] = "set"
    /\ deadline' = [deadline EXCEPT ![p] = "expired"]
    /\ UNCHANGED <<stock, comp, pc, op, arg, idx, txOpen, txw, productExist,
                   stockNo, ret, stmts, failed, effect, need, ncalls, nuploads,
                   txEnd, faults, readVars>>

\* ------------------------------------------------------- the specification

\* The stores the run starts from: the empty store of a fresh database, or
\* the store two committed uploads left: product P registered as MaxAmt of
\* a1 and one of a2, and a stock row for every article.
RegisteredP == [k \in {"P"} \X Articles |-> IF k[2] = "a1" THEN MaxAmt ELSE 1]

InitStores ==
    {[stock |-> NoRows, comp |-> NoRows]}
    \cup {[stock |-> s, comp |-> RegisteredP] : s \in [Articles -> 0..MaxQty]}

InitEngine ==
    /\ pc = [p \in Procs |-> "idle"]
    /\ op = [p \in Procs |-> "none"]
    /\ arg = [p \in Procs |-> <<>>]
    /\ idx = [p \in Procs |-> 0]
    /\ txOpen = [p \in Procs |-> FALSE]
    /\ txw = [p \in Procs |-> NoWrites]
    /\ productExist = [p \in Procs |-> 0]
    /\ stockNo = [p \in Procs |-> 0]
    /\ ret = [p \in Procs |-> NoRet]
    /\ stmts = [p \in Procs |-> <<>>]
    /\ failed = [p \in Procs |-> "none"]
    /\ effect = [p \in Procs |-> NoEffect]
    /\ need = [p \in Procs |-> NoRows]
    /\ ncalls = [p \in Procs |-> 0]
    /\ nuploads = 0
    /\ txEnd = [p \in Procs |-> "none"]
    /\ deadline = [p \in Procs |-> "none"]
    /\ faults = 0

InitGPS ==
    /\ gpsPc = "idle"
    /\ gpsIdx = 0
    /\ stocks = <<>>
    /\ gpsRet = NoRet
    /\ response = NoResponse

InitGI ==
    /\ giRows = <<>>
    /\ giSeen = NoRows
    /\ giIdx = 0
    /\ giStocks = <<>>
    /\ giRet = NoRet
    /\ rtx = [o \in ReadOps |-> "none"]
    /\ pingRet = NoRet

Init ==
    /\ \E st \in InitStores : stock = st.stock /\ comp = st.comp
    /\ InitEngine
    /\ avail = <<>>
    /\ InitGPS
    /\ giPc = "idle"
    /\ pingPc = "idle"
    /\ InitGI

Next ==
    \E p \in Procs :
        \/ sellProduct(p)
        \/ SellBegin(p)
        \/ SellExists(p)
        \/ SellInStock(p)
        \/ SellExec(p)
        \/ SellCommit(p)
        \/ uploadInventory(p)
        \/ UploadInventoryBegin(p)
        \/ UploadInventoryInsert(p)
        \/ UploadInventoryInsertFailed(p)
        \/ UploadInventoryCommit(p)
        \/ uploadProducts(p)
        \/ UploadProductsBegin(p)
        \/ UploadProductsInsert(p)
        \/ UploadProductsInsertFailed(p)
        \/ UploadProductsCommit(p)

Spec == Init /\ [][Next]_vars

\* Sales alone: the goroutines only sell, against the stores of Init.
NextSales ==
    \E p \in Procs :
        \/ sellProduct(p)
        \/ SellBegin(p)
        \/ SellExists(p)
        \/ SellInStock(p)
        \/ SellExec(p)
        \/ SellCommit(p)

SpecSales == Init /\ [][NextSales]_vars

\* GetProductStock alone, over every availability result within the bounds.
AvailTexts ==
    { <<>>, <<"0">>, <<"4">>, <<"0", "0">>, <<"0", "4">>, <<"-", "0">>,
      <<"-", "3">>, <<"+", "3">>, <<"+">>, <<"x">>, <<"4", "x">>, <<" ", "4">>,
      MaxInt64Mag, CutoffMag, <<"-">> \o CutoffMag, <<"-">> \o MaxUint64Mag,
      MaxUint64Mag \o <<"0">>, MaxUint64Mag \o <<"x">>,
      MaxUint64Mag \o <<"0", "x">>, <<"-">> \o MaxUint64Mag \o <<"0", " ">> }

AvailRows == [name : {"widget", "gadget"}, stock : AvailTexts]

InitProductStock ==
    /\ stock = NoRows /\ comp = NoRows
    /\ InitEngine
    /\ avail \in UNION {[1..n -> AvailRows] : n \in 0..MaxRows}
    /\ gpsPc = "begin"
    /\ gpsIdx = 0
    /\ stocks = <<>>
    /\ gpsRet = NoRet
    /\ response = NoResponse
    /\ giPc = "idle"
    /\ pingPc = "idle"
    /\ InitGI

NextProductStock ==
    \/ GetProductStockBegin
    \/ GetProductStockQuery
    \/ GetProductStockRow
    \/ GetProductStockReturn
    \/ getProductStock

SpecProductStock == InitProductStock /\ [][NextProductStock]_vars

\* A read operation next to one goroutine that uploads and sells: a
\* GetInventory, a GetProductStock (answered by the adapter) or a Ping runs
\* interleaved with the calls of goroutine 1.
Writers == {1}

AvailReads ==
    { <<>>,
      <<[name |-> "widget", stock |-> <<"0">>]>>,
      <<[name |-> "widget", stock |-> <<"0">>],
        [name |-> "gadget", stock |-> <<"4">>]>> }

InitReads ==
    /\ \E st \in InitStores : stock = st.stock /\ comp = st.comp
    /\ InitEngine
    /\ \E o \in ReadOps :
          /\ giPc = IF o = "GetInventory" THEN "begin" ELSE "idle"
          /\ gpsPc = IF o = "GetProductStock" THEN "begin" ELSE "idle"
          /\ pingPc = IF o = "Ping" THEN "begin" ELSE "idle"
          /\ avail \in IF o = "GetProductStock" THEN AvailReads ELSE {<<>>}
    /\ gpsIdx = 0
    /\ stocks = <<>>
    /\ gpsRet = NoRet
    /\ response = NoResponse
    /\ InitGI

NextReads ==
    \/ GetInventoryBegin
    \/ GetInventoryQuery
    \/ GetInventoryRow
    \/ GetInventoryReturn
    \/ GetProductStockBegin
    \/ GetProductStockQuery
    \/ GetProductStockRow
    \/ GetProductStockReturn
    \/ getProductStock
    \/ Ping
    \/ \E p \in Writers :
        \/ sellProduct(p)
        \/ SellBegin(p)
        \/ SellExists(p)
        \/ SellInStock(p)
        \/ SellExec(p)
        \/ SellCommit(p)
        \/ uploadInventory(p)
        \/ UploadInventoryBegin(p)
        \/ UploadInventoryInsert(p)
        \/ UploadInventoryInsertFailed(p)
        \/ UploadInventoryCommit(p)
        \/ uploadProducts(p)
        \/ UploadProductsBegin(p)
        \/ UploadProductsInsert(p)
        \/ UploadProductsInsertFailed(p)
        \/ UploadProductsCommit(p)

SpecReads == InitReads /\ [][NextReads]_vars

\* Sales whose deadline may pass while they run.
NextDeadline ==
    \E p \in Procs :
        \/ sellProduct(p)
        \/ SellBegin(p)
        \/ SellExists(p)
        \/ SellInStock(p)
        \/ SellExec(p)
        \/ SellCommit(p)
        \/ DeadlineExpires(p)

SpecDeadline == Init /\ [][NextDeadline]_vars

\* ------------------------------------------------------------- the claims

Issued(p, call) == call \in Range(stmts[p])

Sold(p) == op[p] = "SellProduct" /\ pc[p] = "done"

\* What the call of p decremented of article a.
DecOf(p, a) == IF a \in DOMAIN effect[p].dec THEN effect[p].dec[a] ELSE 0

Persisted(p) == [stock |-> effect[p].stock, comp |-> effect[p].comp]

\* C1: the persisted stock quantity of every article is >= 0 in every
\* reachable state, under any interleaving of uploads and sales.
C1_StockNeverNegative == \A a \in DOMAIN stock : stock[a] >= 0

\* The store before the calls of this run decremented it.
StockBefore ==
    [a \in DOMAIN stock |-> stock[a] + DecOf(1, a) + DecOf(2, a)]

\* The stock suffices for one sale of name and not for a second one.
OneSaleLeft(s, c, name) ==
    /\ ProductExistCount(c, name) > 0
    /\ InStockFlag(s, c, name) = 0
    /\ InStockFlag(Merge(s, UpdateSaleInfo(s, c, name)), c, name) # 0

\* C2: of two SellProduct(P) calls against a store whose stock suffices for
\* exactly one sale of P, exactly one returns success and the other the
\* out-of-stock error, whatever the interleaving of their steps.
C2_ExactlyOneSaleSucceeds ==
    \A p, q \in Procs :
        ( /\ p # q
          /\ Sold(p) /\ Sold(q) /\ arg[p] = arg[q]
          /\ faults = 0 /\ nuploads = 0
          /\ ncalls[p] = 1 /\ ncalls[q] = 1
          /\ OneSaleLeft(StockBefore, comp, arg[p]) )
        => {ret[p].err, ret[q].err} = {ErrNil, ErrOutOfStock}

C4_AbsentProductNotFound ==
    \A p \in Procs :
        ( /\ Sold(p) /\ failed[p] = "none"
          /\ Issued(p, "productExist") /\ productExist[p] = 0 )
        => /\ ret[p].err = ErrNotFound
           /\ ~Issued(p, "updateSaleInfo")
           /\ effect[p] = NoEffect

C6_SuccessfulSaleDecrements ==
    \A p \in Procs :
        (Sold(p) /\ ret[p].err = ErrNil)
        => /\ \A a \in DOMAIN stock :
                IF <<arg[p], a>> \in DOMAIN comp
                THEN DecOf(p, a) = comp[<<arg[p], a>>]
                ELSE a \notin DOMAIN effect[p].stock
           /\ effect[p].comp = NoRows

Last(S) == CHOOSE i \in S : \A j \in S : j <= i

\* The stock rows an inventory payload leaves when all of it is persisted.
InventoryWrites(inv) ==
    [a \in {inv[i].art : i \in DOMAIN inv} |->
        inv[Last({i \in DOMAIN inv : inv[i].art = a})].qty]

\* The composition rows a products payload leaves when all of it is
\* persisted.
ProductWrites(products) ==
    LET rows == ProductRows(products) IN
    [k \in {<<rows[i].name, rows[i].art>> : i \in DOMAIN rows} |->
        rows[Last({i \in DOMAIN rows : <<rows[i].name, rows[i].art>> = k})].amt]

BatchWrites(p) ==
    IF op[p] = "UploadInventory"
    THEN [stock |-> InventoryWrites(arg[p]), comp |-> NoRows]
    ELSE [stock |-> NoRows, comp |-> ProductWrites(arg[p])]

Uploads == {"UploadInventory", "UploadProducts"}

\* C7: an upload persists every row of its batch or none; after a failed
\* insert or a failed commit none of the rows inserted before is persisted,
\* and after a commit all are.
C7_UploadAllOrNothing ==
    \A p \in Procs :
        op[p] \in Uploads =>
            /\ Persisted(p) \in {NoWrites, BatchWrites(p)}
            /\ (failed[p] # "none" => Persisted(p) = NoWrites)
            /\ (pc[p] = "done" /\ failed[p] = "none"
                    => Persisted(p) = BatchWrites(p))

\* An insert failed after an earlier insert of the batch had succeeded.
C7_Witness ==
    \E p \in Procs :
        /\ op[p] \in Uploads /\ pc[p] = "done"
        /\ failed[p] \in {"insertStock", "insertProduct"}
        /\ idx[p] >= 1

\* C8: UploadInventory reports the size of the batch when its transaction
\* commits, and zero with an error when an insert fails; never a count
\* strictly between.
C8_InventoryCount ==
    \A p \in Procs :
        (op[p] = "UploadInventory" /\ pc[p] = "done") =>
            /\ (failed[p] = "none" =>
                    ret[p] = [err |-> ErrNil, n |-> Len(arg[p])])
            /\ (failed[p] = "insertStock" =>
                    ret[p].n = 0 /\ ret[p].err # ErrNil)
            /\ ret[p].n \in {0, Len(arg[p])}

\* The second insert of a batch of two failed.
C8_Witness ==
    \E p \in Procs :
        /\ op[p] = "UploadInventory" /\ pc[p] = "done"
        /\ failed[p] = "insertStock" /\ idx[p] = 1 /\ Len(arg[p]) = 2

\* C9: an UploadProducts that returns no error reports the number of
\* products of the payload, having inserted one row per (product, article)
\* pair of their compositions; what it committed are those rows.
C9_ProductCount ==
    \A p \in Procs :
        (op[p] = "UploadProducts" /\ pc[p] = "done" /\ ret[p].err = ErrNil) =>
            /\ ret[p].n = Len(arg[p])
            /\ idx[p] = Len(ProductRows(arg[p]))
            /\ (failed[p] = "none" =>
                    Cardinality(DOMAIN effect[p].comp) = Len(ProductRows(arg[p])))

\* One product of two composition rows was uploaded and committed.
C9_Witness ==
    \E p \in Procs :
        /\ op[p] = "UploadProducts" /\ pc[p] = "done"
        /\ failed[p] = "none" /\ ret[p].n = 1
        /\ Cardinality(DOMAIN effect[p].comp) = 2

\* The entries of the rows whose value ParseInt accepts as a non-zero number.
RECURSIVE ParsedNonZeroRows(_)
ParsedNonZeroRows(rows) ==
    IF rows = <<>> THEN <<>>
    ELSE (IF ParseInt(Head(rows).stock).err = "nil"
             /\ ParseInt(Head(rows).stock).mag # <<>>
          THEN <<[Name |-> Head(rows).name,
                  AvailableProductNo |-> Head(rows).stock]>>
          ELSE <<>>)
         \o ParsedNonZeroRows(Tail(rows))

\* C10 as stated: GetProductStock returns exactly the rows whose value
\* parses (without a parse failure) to a non-zero integer, in store order
\* with their text; a row whose value fails to parse is excluded.
C10_OnlyParsedNonZero ==
    (gpsPc = "done" /\ gpsRet.err = ErrNil)
    => gpsRet.n = ParsedNonZeroRows(avail)

\* A text that is an optionally signed decimal numeral with a non-zero digit.
NonZeroNumeral(t) ==
    /\ t # <<>>
    /\ LET body == IF t[1] \in {"+", "-"} THEN Tail(t) ELSE t IN
       /\ body # <<>>
       /\ \A i \in 1..Len(body) : IsDigit(body[i])
       /\ \E i \in 1..Len(body) : body[i] # "0"

\* A text that, after an optional sign, starts with digits whose value is
\* beyond 64 bits, whatever follows them.
OverflowingDigits(t) ==
    /\ t # <<>>
    /\ LET body == IF t[1] \in {"+", "-"} THEN Tail(t) ELSE t IN
       \E k \in 1..Len(body) :
           /\ \A i \in 1..k : IsDigit(body[i])
           /\ MagLess(MaxUint64Mag, StripZeros(SubSeq(body, 1, k)))

RECURSIVE IncludedRows(_)
IncludedRows(rows) ==
    IF rows = <<>> THEN <<>>
    ELSE (IF NonZeroNumeral(Head(rows).stock)
             \/ OverflowingDigits(Head(rows).stock)
          THEN <<[Name |-> Head(rows).name,
                  AvailableProductNo |-> Head(rows).stock]>>
          ELSE <<>>)
         \o IncludedRows(Tail(rows))

\* C10 amended: GetProductStock returns, in store order and with their
\* text, exactly the rows whose value is a signed decimal numeral with a
\* non-zero digit, whether or not it fits 64 bits, or starts (after the
\* sign) with digits already beyond 64 bits; any other value, zero or
\* malformed, is excluded, and no value makes the call fail.
C10_NonZeroNumerals ==
    gpsPc = "done" =>
        /\ (faults = 0 => gpsRet.err = ErrNil)
        /\ (gpsRet.err = ErrNil => gpsRet.n = IncludedRows(avail))

\* A malformed value was dropped, and a value whose digits run beyond 64
\* bits before a byte that is no digit was kept.
C10_Witness ==
    /\ gpsPc = "done" /\ gpsRet.err = ErrNil
    /\ Len(avail) = 2 /\ Len(gpsRet.n) = 1
    /\ ParseInt(avail[1].stock).err = "syntax"
    /\ ParseInt(avail[2].stock).err = "range"
    /\ ~NonZeroNumeral(avail[2].stock)

\* C11: GetInventory returns the rows of the stock table as committed when
\* it queried, one entry per row in the order the store delivered them and
\* none left out, whatever their quantity; on an empty store, and without a
\* store failure, it returns the empty sequence and no error.
C11_InventoryAsPersisted ==
    giPc = "done" =>
        /\ (faults = 0 => giRet.err = ErrNil)
        /\ (giRet.err = ErrNil =>
              /\ giRet.n = giRows
              /\ Len(giRet.n) = Cardinality(DOMAIN giSeen)
              /\ \A a \in DOMAIN giSeen :
                    \E i \in DOMAIN giRet.n :
                        giRet.n[i] = [ArtId |-> a, Stock |-> giSeen[a]]
              /\ (giSeen = NoRows => giRet.n = <<>>))

\* GetInventory returned two rows, one of them with quantity zero.
C11_Witness ==
    /\ giPc = "done" /\ giRet.err = ErrNil
    /\ Len(giRet.n) = 2
    /\ \E i \in DOMAIN giRet.n : giRet.n[i].Stock = 0

\* C12: a call one of whose store calls failed (begin, exists-check,
\* stock-check, scan, insert, decrement or commit) issues nothing more but
\* its rollback and has returned a non-nil error, with its transaction
\* ended and nothing persisted; no call returns success after a store
\* failure.
C12_FailureReturned ==
    \A p \in Procs :
        /\ (failed[p] # "none" => pc[p] \in {"done", "insertFailed"})
        /\ (pc[p] = "done" /\ failed[p] # "none")
            => /\ ret[p].err # ErrNil
               /\ ~txOpen[p]
               /\ effect[p] = NoEffect

\* The store calls of a complete sale, in the order SellProduct issues them.
SaleOrder == <<"BeginTx", "productExist", "inStock", "updateSaleInfo", "Commit">>

IsPrefix(s, t) == Len(s) <= Len(t) /\ \A i \in DOMAIN s : s[i] = t[i]

\* C13: a SellProduct call issues its store calls in the order begin,
\* exists-check, stock-check, decrement, commit inside one transaction; the
\* decrement is issued only after the exists-check found the product and the
\* stock-check found it in stock, the commit only after the decrement
\* succeeded; a failure ends the call with the transaction rolled back, and
\* a rolled-back call issues nothing more.
C13_SellStateMachine ==
    \A p \in Procs :
        op[p] = "SellProduct" =>
            /\ IsPrefix(stmts[p], SaleOrder)
            /\ (Issued(p, "updateSaleInfo") =>
                    /\ productExist[p] > 0
                    /\ stockNo[p] = 0
                    /\ failed[p] \in {"none", "updateSaleInfo", "Commit"})
            /\ (Issued(p, "Commit") =>
                    Issued(p, "updateSaleInfo") /\ failed[p] \in {"none", "Commit"})
            /\ (failed[p] \notin {"none", "BeginTx"} => txEnd[p] = "rollback")
            /\ (ret[p].err \in {ErrNotFound, ErrOutOfStock} =>
                    txEnd[p] = "rollback")
            /\ (txEnd[p] # "none" => pc[p] = "done" /\ ~txOpen[p])

\* C14 as stated: an upload whose inserts all succeeded and whose commit
\* failed returns no error together with the size of its batch
\* (UploadInventory the number of entries, UploadProducts the number of
\* products), nothing being persisted.
C14_CommitFailureSameCount ==
    \A p \in Procs :
        (op[p] \in Uploads /\ pc[p] = "done" /\ failed[p] = "Commit")
        => /\ ret[p] = [err |-> ErrNil, n |-> Len(arg[p])]
           /\ Persisted(p) = NoWrites

\* C14 amended: an upload whose inserts all succeeded and whose commit
\* failed returns no error and has persisted nothing; UploadProducts
\* reports the number of products of the batch, UploadInventory reports 0.
C14_CommitFailureCounts ==
    \A p \in Procs :
        (op[p] \in Uploads /\ pc[p] = "done" /\ failed[p] = "Commit")
        => /\ ret[p].err = ErrNil
           /\ ret[p].n = IF op[p] = "UploadInventory" THEN 0 ELSE Len(arg[p])
           /\ Persisted(p) = NoWrites
           /\ idx[p] = IF op[p] = "UploadInventory" THEN Len(arg[p])
                       ELSE Len(ProductRows(arg[p]))

\* The commit of an inventory batch of two entries failed.
C14_Witness ==
    \E p \in Procs :
        /\ op[p] = "UploadInventory" /\ pc[p] = "done"
        /\ failed[p] = "Commit" /\ Len(arg[p]) = 2 /\ idx[p] = 2

\* C15: every engine call runs under a request that carries the adapter's
\* deadline, and a call whose deadline expired at any step before its commit
\* has been aborted: it returned an error, its transaction was rolled back
\* and nothing of it is persisted. (Stated for the runs without a store
\* failure, where the expiry is the only thing that can abort the call.)
C15_DeadlineAborts ==
    \A p \in Procs :
        /\ (op[p] # "none" => deadline[p] # "none")
        /\ (pc[p] = "done" /\ deadline[p] = "expired" /\ faults = 0)
            => /\ ret[p].err # ErrNil
               /\ txEnd[p] # "commit"
               /\ effect[p] = NoEffect

\* C16: the adapter's product-stock response carries the "No product in
\* stock" indicator exactly when the engine returned no error and an empty
\* filtered sequence, and then with the success status and without a list;
\* when the engine returned a non-empty sequence the response carries that
\* list and no indicator; an engine error is answered with the error's
\* message and no list.
C16_NoProductIndicator ==
    response # NoResponse =>
        /\ (response.message = NoProductMessage
                <=> (gpsRet.err = ErrNil /\ gpsRet.n = <<>>))
        /\ (response.message = NoProductMessage =>
                response.status = StatusOK /\ response.productStocks = <<>>)
        /\ ((gpsRet.err = ErrNil /\ gpsRet.n # <<>>) =>
                /\ response.status = StatusOK
                /\ response.productStocks = gpsRet.n
                /\ response.message = "")
        /\ (gpsRet.err # ErrNil =>
                /\ response.status = StatusNotFound
                /\ response.message = gpsRet.err
                /\ response.productStocks = <<>>)

\* Every row of a result of two rows was filtered out and the adapter
\* answered with the indicator.
C16_Witness ==
    /\ response.message = NoProductMessage
    /\ Len(avail) = 2 /\ gpsRet.err = ErrNil /\ gpsRet.n = <<>>

BeginCount(p) == Cardinality({i \in DOMAIN stmts[p] : stmts[p][i] = "BeginTx"})

\* Where operation o stands, and what it returned.
ReadPc(o) ==
    IF o = "GetInventory" THEN giPc
    ELSE IF o = "GetProductStock" THEN gpsPc
    ELSE pingPc

ReadRet(o) ==
    IF o = "GetInventory" THEN giRet
    ELSE IF o = "GetProductStock" THEN gpsRet
    ELSE pingRet

\* A call of UploadProducts, UploadInventory or SellProduct begins exactly
\* one transaction, as its first store call, and works in that one only:
\* none is open before the call begins or after it returned; a transaction
\* that was begun has been ended by a commit or a rollback on return.
WriteCallsOneTransaction ==
    \A p \in Procs :
        /\ (pc[p] \in {"idle", "begin", "done"} =>
                ~txOpen[p] /\ txw[p] = NoWrites)
        /\ (pc[p] \notin {"idle", "begin"} =>
                BeginCount(p) = 1 /\ stmts[p][1] = "BeginTx")
        /\ (txOpen[p] =>
                /\ txEnd[p] = "none"
                /\ failed[p] \in {"none", "insertStock", "insertProduct"}
                                 \cup IterationErrors)
        /\ (pc[p] = "insertFailed" => txOpen[p])
        /\ (pc[p] = "done" =>
                IF failed[p] = "BeginTx"
                THEN txEnd[p] = "none"
                ELSE txEnd[p] \in {"commit", "rollback"})

\* Operation o has no transaction before it begins, has one open while it
\* runs, and has ended it when it returns, unless beginning it failed.
OneTransaction(o) ==
    /\ (ReadPc(o) \in {"idle", "begin"} => rtx[o] = "none")
    /\ (ReadPc(o) \in {"query", "rows"} => rtx[o] = "open")
    /\ (ReadPc(o) = "done" =>
            \/ rtx[o] = "rollback"
            \/ rtx[o] = "none" /\ ReadRet(o).err = ErrStore)

\* C17 as stated: every engine operation, Ping among them, begins exactly
\* one fresh transaction per call, and on every return path that
\* transaction has been ended by a commit or a rollback; no call leaves a
\* transaction open and none passes from one call to another.
C17_EveryOperationOneTransaction ==
    /\ WriteCallsOneTransaction
    /\ \A o \in ReadOps : OneTransaction(o)

\* C17 amended: every engine operation but Ping begins exactly one
\* transaction per call, as its first store call, and works in that one
\* only: none is open before the call begins or after it returned, so none
\* passes from one call to another, and on every return path (success,
\* business-rule failure, store failure) a transaction that was begun has
\* been ended by a commit or a rollback. Ping begins no transaction.
C17_OneTransactionPerCall ==
    /\ WriteCallsOneTransaction
    /\ \A r \in Readers : OneTransaction(r)
    /\ rtx["Ping"] = "none"

\* A sale was refused for lack of stock and a read operation returned, both
\* with their transaction rolled back.
C17_Witness ==
    /\ \E p \in Procs :
          Sold(p) /\ ret[p].err = ErrOutOfStock /\ txEnd[p] = "rollback"
    /\ \E r \in Readers : ReadPc(r) = "done" /\ rtx[r] = "rollback"

\* A step of GetInventory, GetProductStock or Ping.
ReadStep ==
    \/ giVars' # giVars
    \/ gpsVars' # gpsVars
    \/ pingVars' # pingVars
    \/ rtx' # rtx

\* C18: no step of GetInventory, GetProductStock or Ping changes a stock
\* quantity or a composition row, also while uploads and sales run
\* interleaved with it, and the transaction of a read operation never ends
\* otherwise than by rollback.
C18_ReadsLeaveStore ==
    /\ [](\A r \in Readers : rtx[r] \in {"none", "open", "rollback"})
    /\ [](\A r \in Readers :
            (ReadPc(r) = "done" /\ ReadRet(r).err = ErrNil) =>
                rtx[r] = "rollback")
    /\ [][ReadStep => UNCHANGED <<stock, comp, txw>>]_vars

\* GetInventory returned, its transaction rolled back, after a sale or an
\* upload committed a change of the stock table it had read.
C18_Witness ==
    /\ giPc = "done" /\ giRet.err = ErrNil
    /\ rtx["GetInventory"] = "rollback"
    /\ stock # giSeen
    /\ \E p \in Procs : txEnd[p] = "commit"

====
